---------------------------- MODULE Spec2Model ----------------------------
(***************************************************************************)
(* Model of process_data.py: load_and_process_data (event log -> pivoted,  *)
(* forward-filled state table, notification table) and                     *)
(* calculate_consumption_and_charges (state table -> trips, charges).      *)
(*                                                                         *)
(* Numbers.  Every numeric cell is a fixed-point integer counting          *)
(* hundredths (80 % is 8000, 0.5 kW is 50, 273.15 is 27315).  Timestamps   *)
(* are integer minutes.  A value is a record [k, n, s]: k = "null" is a    *)
(* missing value (None / NaN), k = "num" a number n, k = "str" a string    *)
(* whose characters are the sequence s.                                    *)
(***************************************************************************)
EXTENDS Integers, Sequences, FiniteSets, TLC

VARIABLES
    pc,               \* position in load_and_process_data
    events,           \* data['Data']: the raw event list, in arrival order
    df,               \* events with parsed timestamps, unparseable ones dropped
    df_notes_pivot,   \* the notification pivot (None when never built)
    df_pivot,         \* the pivoted state table
    df_filled,        \* df_pivot.ffill(), which the analysis extends in place
    driving_data,     \* df[is_driving] with its new_trip / trip_id columns
    charging_data,    \* df[is_charging] with its new_charge / charge_id columns
    df_trips,         \* the trip table (None when the analysis was skipped)
    df_charges,       \* the charge table (None when the analysis was skipped)
    files,            \* the four output paths
    log               \* what the run printed

vars == <<pc, events, df, df_notes_pivot, df_pivot, df_filled, driving_data, charging_data,
          df_trips, df_charges, files, log>>

----------------------------------------------------------------------------
(* Values *)

Null == [k |-> "null", n |-> 0, s |-> <<>>]

Num(x) == [k |-> "num", n |-> x, s |-> <<>>]

Str(cs) == [k |-> "str", n |-> 0, s |-> cs]

isna(v) == v.k = "null"

Hundredths(x) == x * 100

Digits == {"0", "1", "2", "3", "4", "5", "6", "7", "8", "9"}

DigitValue(c) ==
    CASE c = "0" -> 0 [] c = "1" -> 1 [] c = "2" -> 2 [] c = "3" -> 3
      [] c = "4" -> 4 [] c = "5" -> 5 [] c = "6" -> 6 [] c = "7" -> 7
      [] c = "8" -> 8 [] c = "9" -> 9

RECURSIVE ParseDigits(_)
ParseDigits(cs) ==
    IF cs = <<>> THEN 0
    ELSE 10 * ParseDigits(SubSeq(cs, 1, Len(cs) - 1)) + DigitValue(cs[Len(cs)])

\* pd.to_numeric(errors='coerce') on one cell: a number stays, a string of
\* digits is parsed, everything else (None, "", a non-numeric string) is NaN.
to_numeric(v) ==
    IF v.k = "num" THEN v
    ELSE IF v.k = "str" /\ v.s # <<>> /\ \A i \in DOMAIN v.s : v.s[i] \in Digits
         THEN Num(Hundredths(ParseDigits(v.s)))
         ELSE Null

\* A raw timestamp string: either unparseable, or a local time (minutes) with
\* a UTC offset (minutes).
RawTime(local, off) == [ok |-> TRUE, local |-> local, off |-> off]

BadTime == [ok |-> FALSE, local |-> 0, off |-> 0]

\* pd.to_datetime(format='mixed', errors='coerce', utc=True) on one cell.
to_datetime(raw) ==
    IF raw.ok THEN [nat |-> FALSE, t |-> raw.local - raw.off]
    ELSE [nat |-> TRUE, t |-> 0]

----------------------------------------------------------------------------
(* Sequences and sets *)

Range(q) == {q[i] : i \in DOMAIN q}

SetMin(S) == CHOOSE x \in S : \A y \in S : x <= y

SetMax(S) == CHOOSE x \in S : \A y \in S : x >= y

RECURSIVE SortedSeq(_)
SortedSeq(S) ==
    IF S = {} THEN <<>> ELSE <<SetMin(S)>> \o SortedSeq(S \ {SetMin(S)})

RECURSIVE SumSeq(_)
SumSeq(q) == IF q = <<>> THEN 0 ELSE q[1] + SumSeq(Tail(q))

\* round(x, d) of the fraction num / den (den > 0) to an integer count of
\* the target unit, ties to even as Python's round does.
Round(num, den) ==
    LET fl == num \div den
        r2 == 2 * (num % den)
    IN  IF r2 < den THEN fl
        ELSE IF r2 > den THEN fl + 1
        ELSE IF fl % 2 = 0 THEN fl ELSE fl + 1

----------------------------------------------------------------------------
(* Tables: [index |-> sequence of timestamps, cols |-> [name |-> column]] *)

EmptyTable == [index |-> <<>>, cols |-> <<>>]

Columns(tb) == DOMAIN tb.cols

NRows(tb) == Len(tb.index)

\* A function's result or a local that holds a DataFrame, or None.
NoneFrame == [none |-> TRUE, rows |-> <<>>]

Frame(rows) == [none |-> FALSE, rows |-> rows]

notification_fields == {"text", "priority", "category", "iconColor"}

interesting_fields ==
    {"currentSOCInPct", "chargePowerInKW", "chargeMode",
     "remainingChargingTimeToCompleteInMin", "mileage",
     "cruisingRangeElectricInKm", "temperatureOutsideVehicle",
     "climatisationState", "chargingState", "inspectionDueDays",
     "batteryCareMode", "plugConnectionState", "externalPower"}

numeric_cols ==
    {"currentSOCInPct", "chargePowerInKW",
     "remainingChargingTimeToCompleteInMin", "mileage",
     "cruisingRangeElectricInKm", "temperatureOutsideVehicle",
     "inspectionDueDays"}

required_cols ==
    {"currentSOCInPct", "mileage", "chargePowerInKW", "temperatureOutsideVehicle"}

\* df[df['dataFieldName'].isin(fields)]
FilterFields(rows, fields) ==
    LET Keep(r) == r.dataFieldName \in fields
    IN  SelectSeq(rows, Keep)

\* The values of one (timestamp, field) group, in arrival order.
GroupValues(rows, t, f) ==
    LET Keep(r) == r.timestampUtc = t /\ r.dataFieldName = f
        g == SelectSeq(rows, Keep)
    IN  [i \in DOMAIN g |-> g[i].value]

\* GroupBy.first / GroupBy.last: the first / last value of the group that is
\* not null, NaN when the group has none.
AggFirst(vals) ==
    LET ok == {i \in DOMAIN vals : ~isna(vals[i])}
    IN  IF ok = {} THEN Null ELSE vals[SetMin(ok)]

\* Mutant: the last value of the group, null or not.
AggLastAny(vals) == IF vals = <<>> THEN Null ELSE vals[Len(vals)]

AggLast(vals) ==
    LET ok == {i \in DOMAIN vals : ~isna(vals[i])}
    IN  IF ok = {} THEN Null ELSE vals[SetMax(ok)]

Agg(aggfunc, vals) == IF aggfunc = "first" THEN AggFirst(vals) ELSE AggLast(vals)

\* DataFrame.pivot_table(index='timestampUtc', columns='dataFieldName',
\* values='value', aggfunc=aggfunc) with its default dropna=True: the groups
\* are aggregated, the groups whose aggregate is null are dropped, and the
\* rest is unstacked over the sorted timestamps that are left.
pivot_table(rows, aggfunc) ==
    LET keys == {<<rows[i].timestampUtc, rows[i].dataFieldName>> : i \in DOMAIN rows}
        agged == [key \in keys |-> Agg(aggfunc, GroupValues(rows, key[1], key[2]))]
        kept == {key \in keys : ~isna(agged[key])}
        idx == SortedSeq({key[1] : key \in kept})
        names == {key[2] : key \in kept}
    IN  [index |-> idx,
         cols |-> [c \in names |->
                     [i \in DOMAIN idx |->
                        IF <<idx[i], c>> \in kept THEN agged[<<idx[i], c>>] ELSE Null]]]

\* The defined values of a column.
Defined(col) == SelectSeq(col, LAMBDA v : ~isna(v))

ColSum(col) == SumSeq([i \in DOMAIN Defined(col) |-> Defined(col)[i].n])

\* Series.mean() > limit; the mean skips NaN and is NaN (so the comparison is
\* False) when no value is defined.
MeanAbove(col, limit) ==
    /\ Defined(col) # <<>>
    /\ ColSum(col) > limit * Len(Defined(col))

KELVIN_THRESHOLD == 20000

KELVIN_OFFSET == 27315

\* Mutant: the offset with its decimal point one place off.
SubtractSlippedOffset(col) ==
    [i \in DOMAIN col |->
        IF isna(col[i]) THEN Null ELSE Num(col[i].n - KELVIN_OFFSET \div 10)]

\* df_pivot[col] - 273.15
SubtractOffset(col) ==
    [i \in DOMAIN col |-> IF isna(col[i]) THEN Null ELSE Num(col[i].n - KELVIN_OFFSET)]

\* The Kelvin fix on the temperature column.
FixTemperatureColumn(col) ==
    IF MeanAbove(col, KELVIN_THRESHOLD) THEN SubtractOffset(col) ELSE col

\* DataFrame.sort_index(): the rows in increasing timestamp order.
sort_index(tb) ==
    LET idx == SortedSeq(Range(tb.index))
        Pos(t) == CHOOSE i \in DOMAIN tb.index : tb.index[i] = t
    IN  [index |-> idx,
         cols |-> [c \in Columns(tb) |-> [i \in DOMAIN idx |-> tb.cols[c][Pos(idx[i])]]]]

\* Mutant: no fill at all.
ffill_nothing(col) == col

\* Series.ffill(): a missing cell takes the closest defined cell above it.
ffill_column(col) ==
    [i \in DOMAIN col |->
        LET ok == {j \in 1..i : ~isna(col[j])}
        IN  IF ok = {} THEN Null ELSE col[SetMax(ok)]]

ffill(tb) ==
    [index |-> tb.index, cols |-> [c \in Columns(tb) |-> ffill_column(tb.cols[c])]]

----------------------------------------------------------------------------
(* calculate_consumption_and_charges *)

BATTERY_CAPACITY_KWH == 77

TRIP_GAP_MIN == 30

CHARGE_GAP_MIN == 15

CHARGING_POWER_THRESHOLD == 50

\* Mutant: the missing cells are filled with 0 before the difference is
\* taken (fillna(0).diff()), so the first observed value is an increase.
diff_of_filled(col) ==
    [i \in DOMAIN col |->
        IF i = 1 THEN Null
        ELSE Num((IF isna(col[i]) THEN 0 ELSE col[i].n)
                 - (IF isna(col[i - 1]) THEN 0 ELSE col[i - 1].n))]

\* Series.diff(): NaN in the first row and wherever an operand is NaN.
diff(col) ==
    [i \in DOMAIN col |->
        IF i = 1 \/ isna(col[i]) \/ isna(col[i - 1]) THEN Null
        ELSE Num(col[i].n - col[i - 1].n)]

fillna0(col) == [i \in DOMAIN col |-> IF isna(col[i]) THEN Num(0) ELSE col[i]]

\* df.index.to_series().diff().dt.total_seconds().div(60).fillna(0)
time_diff_min(index) ==
    [i \in DOMAIN index |->
        IF i = 1 THEN Num(0) ELSE Num(Hundredths(index[i] - index[i - 1]))]

\* The three derived columns, written into df itself.
WithDeltas(tb) ==
    [index |-> tb.index,
     cols |-> [c \in Columns(tb) \cup {"delta_mileage", "delta_soc", "time_diff_min"} |->
                 IF c = "delta_mileage" THEN fillna0(diff(tb.cols["mileage"]))
                 ELSE IF c = "delta_soc" THEN fillna0(diff(tb.cols["currentSOCInPct"]))
                 ELSE IF c = "time_diff_min" THEN time_diff_min(tb.index)
                 ELSE tb.cols[c]]]

is_charging(tb, i) ==
    /\ ~isna(tb.cols["chargePowerInKW"][i])
    /\ tb.cols["chargePowerInKW"][i].n > CHARGING_POWER_THRESHOLD

\* Mutant: a row with an unchanged odometer counts as driving.
is_driving_or_still(tb, i) == tb.cols["delta_mileage"][i].n >= 0

is_driving(tb, i) == tb.cols["delta_mileage"][i].n > 0

\* Mutant: the trip pass splits at the charge pass's 15 minutes.
new_trip_at_charge_gap(tb, row) ==
    tb.cols["time_diff_min"][row].n > Hundredths(CHARGE_GAP_MIN)

\* driving_data['new_trip'] = driving_data['time_diff_min'] > 30
new_trip(tb, row) == tb.cols["time_diff_min"][row].n > Hundredths(TRIP_GAP_MIN)

\* charging_data['new_charge'] = charging_data['time_diff_min'] > 15
new_charge(tb, row) == tb.cols["time_diff_min"][row].n > Hundredths(CHARGE_GAP_MIN)

\* Mutant: trip_id is new_trip itself, the cumsum forgotten.
DrivingDataNoCumsum(tb) ==
    LET rows == SortedSeq({i \in DOMAIN tb.index : tb.cols["delta_mileage"][i].n > 0})
    IN  [j \in DOMAIN rows |->
            [row |-> rows[j],
             new |-> new_trip(tb, rows[j]),
             id |-> IF new_trip(tb, rows[j]) THEN 1 ELSE 0]]

\* df[is_driving].copy() with new_trip and trip_id = new_trip.cumsum(); each
\* element keeps the position of its row in df.
DrivingData(tb) ==
    LET rows == SortedSeq({i \in DOMAIN tb.index : is_driving(tb, i)})
    IN  [j \in DOMAIN rows |->
            [row |-> rows[j],
             new |-> new_trip(tb, rows[j]),
             id |-> Cardinality({m \in 1..j : new_trip(tb, rows[m])})]]

\* df[is_charging].copy() with new_charge and charge_id = new_charge.cumsum()
ChargingData(tb) ==
    LET rows == SortedSeq({i \in DOMAIN tb.index : is_charging(tb, i)})
    IN  [j \in DOMAIN rows |->
            [row |-> rows[j],
             new |-> new_charge(tb, rows[j]),
             id |-> Cardinality({m \in 1..j : new_charge(tb, rows[m])})]]

\* data.groupby(id): the groups in increasing id, each in row order.
GroupBy(data) ==
    LET ids == SortedSeq({data[j].id : j \in DOMAIN data})
    IN  [g \in DOMAIN ids |-> SelectSeq(data, LAMBDA d : d.id = ids[g])]

GroupTimes(tb, group) == {tb.index[group[j].row] : j \in DOMAIN group}

GroupColumn(tb, group, c) == [j \in DOMAIN group |-> tb.cols[c][group[j].row]]

\* start_soc - end_soc, NaN when either is.
Minus(a, b) == IF isna(a) \/ isna(b) THEN Null ELSE Num(a.n - b.n)

\* Mutant: the energy keeps its sign, the "if > 0" guard dropped.
EnergySigned(soc_diff) ==
    IF isna(soc_diff) THEN 0 ELSE soc_diff.n * BATTERY_CAPACITY_KWH

\* (soc_diff / 100.0) * BATTERY_CAPACITY_KWH if soc_diff > 0 else 0, in
\* units of 1/10000 kWh (exact); NaN > 0 is False.
EnergyOf(soc_diff) ==
    IF ~isna(soc_diff) /\ soc_diff.n > 0 THEN soc_diff.n * BATTERY_CAPACITY_KWH ELSE 0

\* round(Series.mean(), 1) in tenths, NaN when no value is defined.
RoundedMean(col) ==
    IF Defined(col) = <<>> THEN Null
    ELSE Num(Round(ColSum(col), 10 * Len(Defined(col))))

\* round(Series.max(), 1) in tenths, NaN when no value is defined.
RoundedMax(col) ==
    IF Defined(col) = <<>> THEN Null
    ELSE Num(Round(SetMax({Defined(col)[i].n : i \in DOMAIN Defined(col)}), 10))

\* Mutant: Start SOC and End SOC are the highest and the lowest charge level
\* of the group instead of the level at its first and last sample.
TripRowMinMax(tb, group) ==
    LET distance == ColSum(GroupColumn(tb, group, "delta_mileage"))
        socs == Defined(GroupColumn(tb, group, "currentSOCInPct"))
        levels == {socs[j].n : j \in DOMAIN socs}
        start_soc == IF levels = {} THEN Null ELSE Num(SetMax(levels))
        end_soc == IF levels = {} THEN Null ELSE Num(SetMin(levels))
        energy_consumed_kwh == EnergyOf(Minus(start_soc, end_soc))
    IN  [StartTime |-> SetMin(GroupTimes(tb, group)),
         EndTime |-> SetMax(GroupTimes(tb, group)),
         Distance |-> Round(distance, 10),
         StartSOC |-> start_soc,
         EndSOC |-> end_soc,
         EnergyUsed |-> Round(energy_consumed_kwh, 100),
         Consumption |-> IF distance > 0
                         THEN Round(100 * energy_consumed_kwh, distance) ELSE 0,
         AvgTemp |-> RoundedMean(GroupColumn(tb, group, "temperatureOutsideVehicle"))]

\* One row of the trip table.  Distance in tenths of a km, Energy Used and
\* Consumption in hundredths, Avg Temp in tenths, the times in minutes.
TripRow(tb, group) ==
    LET distance == ColSum(GroupColumn(tb, group, "delta_mileage"))
        start_soc == tb.cols["currentSOCInPct"][group[1].row]
        end_soc == tb.cols["currentSOCInPct"][group[Len(group)].row]
        energy_consumed_kwh == EnergyOf(Minus(start_soc, end_soc))
    IN  [StartTime |-> SetMin(GroupTimes(tb, group)),
         EndTime |-> SetMax(GroupTimes(tb, group)),
         Distance |-> Round(distance, 10),
         StartSOC |-> start_soc,
         EndSOC |-> end_soc,
         EnergyUsed |-> Round(energy_consumed_kwh, 100),
         Consumption |-> IF distance > 0
                         THEN Round(100 * energy_consumed_kwh, distance) ELSE 0,
         AvgTemp |-> RoundedMean(GroupColumn(tb, group, "temperatureOutsideVehicle"))]

\* One row of the charge table.  Duration in hundredths of an hour, Energy
\* Added in hundredths, the powers in tenths.
ChargeRow(tb, group) ==
    LET start_time == SetMin(GroupTimes(tb, group))
        end_time == SetMax(GroupTimes(tb, group))
        start_soc == tb.cols["currentSOCInPct"][group[1].row]
        end_soc == tb.cols["currentSOCInPct"][group[Len(group)].row]
        energy_added_soc == EnergyOf(Minus(end_soc, start_soc))
    IN  [StartTime |-> start_time,
         EndTime |-> end_time,
         Duration |-> Round(100 * (end_time - start_time), 60),
         StartSOC |-> start_soc,
         EndSOC |-> end_soc,
         EnergyAdded |-> Round(energy_added_soc, 100),
         AvgPower |-> RoundedMean(GroupColumn(tb, group, "chargePowerInKW")),
         MaxPower |-> RoundedMax(GroupColumn(tb, group, "chargePowerInKW"))]

Trips(tb, data) ==
    LET groups == GroupBy(data)
    IN  [g \in DOMAIN groups |-> TripRow(tb, groups[g])]

Charges(tb, data) ==
    LET groups == GroupBy(data)
    IN  [g \in DOMAIN groups |-> ChargeRow(tb, groups[g])]

\* The required-column check of calculate_consumption_and_charges.
HasRequired(tb) == required_cols \subseteq Columns(tb)

\* Mutant: time_diff_min is written into df before the required columns
\* are checked.
calculate_deltas_before_check(tb) ==
    IF ~HasRequired(tb)
    THEN [df |-> [tb EXCEPT !.cols =
                    [c \in Columns(tb) \cup {"time_diff_min"} |->
                        IF c = "time_diff_min" THEN time_diff_min(tb.index)
                        ELSE tb.cols[c]]],
          driving_data |-> <<>>, charging_data |-> <<>>,
          df_trips |-> NoneFrame, df_charges |-> NoneFrame, warned |-> TRUE]
    ELSE LET d == WithDeltas(tb)
         IN  [df |-> d,
              driving_data |-> DrivingData(d),
              charging_data |-> ChargingData(d),
              df_trips |-> Frame(Trips(d, DrivingData(d))),
              df_charges |-> Frame(Charges(d, ChargingData(d))),
              warned |-> FALSE]

\* The whole function: what it leaves in df, its two filtered frames and
\* the two tables it returns.
calculate_consumption_and_charges(tb) ==
    IF ~HasRequired(tb)
    THEN [df |-> tb, driving_data |-> <<>>, charging_data |-> <<>>,
          df_trips |-> NoneFrame, df_charges |-> NoneFrame, warned |-> TRUE]
    ELSE LET d == WithDeltas(tb)
             driving == DrivingData(d)
             charging == ChargingData(d)
         IN  [df |-> d,
              driving_data |-> driving,
              charging_data |-> charging,
              df_trips |-> Frame(Trips(d, driving)),
              df_charges |-> Frame(Charges(d, charging)),
              warned |-> FALSE]

----------------------------------------------------------------------------
(* load_and_process_data *)

Absent == [exists |-> FALSE, content |-> <<>>]

Written(content) == [exists |-> TRUE, content |-> content]

\* DataFrame.to_csv(path): the file holds the frame, or the path is held
\* open by another program and PermissionError is caught and reported.
to_csv(path, content, ok) ==
    /\ files' = IF ok THEN [files EXCEPT ![path] = Written(content)] ELSE files
    /\ log' = IF ok THEN log ELSE log \cup {"PermissionError " \o path}

ParsedRows(data) ==
    [i \in DOMAIN data |->
        [dataFieldName |-> data[i].dataFieldName,
         value |-> data[i].value,
         timestampUtc |-> to_datetime(data[i].timestampUtc)]]

\* df.dropna(subset=['timestampUtc'])
dropna(rows) ==
    LET kept == SelectSeq(rows, LAMBDA r : ~r.timestampUtc.nat)
    IN  [i \in DOMAIN kept |->
            [dataFieldName |-> kept[i].dataFieldName,
             value |-> kept[i].value,
             timestampUtc |-> kept[i].timestampUtc.t]]

\* pd.DataFrame(data['Data']) of an empty list has no timestampUtc column,
\* and df['timestampUtc'] raises KeyError, which nothing catches.
ParseTimestamps ==
    /\ pc = "parse"
    /\ IF events = <<>>
       THEN /\ pc' = "KeyError"
            /\ UNCHANGED <<df, log>>
       ELSE /\ df' = dropna(ParsedRows(events))
            /\ log' = IF Len(df') < Len(events) THEN log \cup {"Dropped rows"} ELSE log
            /\ pc' = "notifications"
    /\ UNCHANGED <<events, df_notes_pivot, df_pivot, df_filled, driving_data,
                   charging_data, df_trips, df_charges, files>>

ExtractNotifications ==
    /\ pc = "notifications"
    /\ LET df_notifications == FilterFields(df, notification_fields)
       IN  IF df_notifications # <<>>
           THEN /\ df_notes_pivot' = pivot_table(df_notifications, "first")
                /\ \E ok \in BOOLEAN : to_csv("notifications", df_notes_pivot', ok)
           ELSE UNCHANGED <<df_notes_pivot, files, log>>
    /\ pc' = "pivot"
    /\ UNCHANGED <<events, df, df_pivot, df_filled, driving_data, charging_data,
                   df_trips, df_charges>>

PivotMain ==
    /\ pc = "pivot"
    /\ df_pivot' = pivot_table(FilterFields(df, interesting_fields), "last")
    /\ pc' = "numeric"
    /\ UNCHANGED <<events, df, df_notes_pivot, df_filled, driving_data,
                   charging_data, df_trips, df_charges, files, log>>

ConvertColumn(col) == [i \in DOMAIN col |-> to_numeric(col[i])]

ConvertNumeric ==
    /\ pc = "numeric"
    /\ df_pivot' = [df_pivot EXCEPT !.cols =
                      [c \in Columns(df_pivot) |->
                          IF c \in numeric_cols THEN ConvertColumn(df_pivot.cols[c])
                          ELSE df_pivot.cols[c]]]
    /\ pc' = "kelvin"
    /\ UNCHANGED <<events, df, df_notes_pivot, df_filled, driving_data,
                   charging_data, df_trips, df_charges, files, log>>

KelvinFires(tb) ==
    /\ "temperatureOutsideVehicle" \in Columns(tb)
    /\ MeanAbove(tb.cols["temperatureOutsideVehicle"], KELVIN_THRESHOLD)

\* The Kelvin-to-Celsius step on the whole table.
FixTemperatureOf(tb) ==
    IF "temperatureOutsideVehicle" \in Columns(tb)
    THEN [tb EXCEPT !.cols["temperatureOutsideVehicle"] = FixTemperatureColumn(@)]
    ELSE tb

FixTemperature ==
    /\ pc = "kelvin"
    /\ df_pivot' = FixTemperatureOf(df_pivot)
    /\ log' = IF KelvinFires(df_pivot)
              THEN log \cup {"Converting Temperature from Kelvin to Celsius"} ELSE log
    /\ pc' = "fill"
    /\ UNCHANGED <<events, df, df_notes_pivot, df_filled, driving_data,
                   charging_data, df_trips, df_charges, files>>

SortAndFill ==
    /\ pc = "fill"
    /\ df_pivot' = sort_index(df_pivot)
    /\ df_filled' = ffill(df_pivot')
    /\ pc' = "analyze"
    /\ UNCHANGED <<events, df, df_notes_pivot, driving_data, charging_data,
                   df_trips, df_charges, files, log>>

Analyze ==
    /\ pc = "analyze"
    /\ LET r == calculate_consumption_and_charges(df_filled)
       IN  /\ df_filled' = r.df
           /\ driving_data' = r.driving_data
           /\ charging_data' = r.charging_data
           /\ df_trips' = r.df_trips
           /\ df_charges' = r.df_charges
           /\ log' = IF r.warned THEN log \cup {"Warning: Missing column"} ELSE log
    /\ pc' = "save_trips"
    /\ UNCHANGED <<events, df, df_notes_pivot, df_pivot, files>>

SaveTrips ==
    /\ pc = "save_trips"
    /\ IF ~df_trips.none /\ df_trips.rows # <<>>
       THEN \E ok \in BOOLEAN : to_csv("trips", df_trips.rows, ok)
       ELSE UNCHANGED <<files, log>>
    /\ pc' = "save_charges"
    /\ UNCHANGED <<events, df, df_notes_pivot, df_pivot, df_filled, driving_data,
                   charging_data, df_trips, df_charges>>

SaveCharges ==
    /\ pc = "save_charges"
    /\ IF ~df_charges.none /\ df_charges.rows # <<>>
       THEN \E ok \in BOOLEAN : to_csv("charges", df_charges.rows, ok)
       ELSE UNCHANGED <<files, log>>
    /\ pc' = "save"
    /\ UNCHANGED <<events, df, df_notes_pivot, df_pivot, df_filled, driving_data,
                   charging_data, df_trips, df_charges>>

SaveProcessed ==
    /\ pc = "save"
    /\ \E ok \in BOOLEAN : to_csv("processed", df_filled, ok)
    /\ pc' = "done"
    /\ UNCHANGED <<events, df, df_notes_pivot, df_pivot, df_filled, driving_data,
                   charging_data, df_trips, df_charges>>

----------------------------------------------------------------------------
(* Inputs *)

MaxEvents == 2

MaxRows == 4

Event(f, v, t) == [dataFieldName |-> f, value |-> v, timestampUtc |-> t]

EventFields == {"mileage", "chargeMode", "text", "other"}

EventValues == {Null, Str(<<"5">>), Str(<<"x">>)}

EventTimes == {RawTime(0, 0), RawTime(5, 0), RawTime(60, 60), BadTime}

Events ==
    {Event(f, v, t) : f \in EventFields, v \in EventValues, t \in EventTimes}

GeneratedInputs == UNION {[1..n -> Events] : n \in 0..MaxEvents}

\* The example of the specification: soc 80 and mileage 100 at t0, mileage
\* 105 at t0 + 5 min, mileage 105 and soc 75 at t0 + 40 min.
ExampleEvents ==
    <<Event("currentSOCInPct", Num(8000), RawTime(0, 0)),
      Event("mileage", Num(10000), RawTime(0, 0)),
      Event("mileage", Num(10500), RawTime(5, 0)),
      Event("mileage", Num(10500), RawTime(40, 0)),
      Event("currentSOCInPct", Num(7500), RawTime(40, 0))>>

\* The same run with a charge power and an outside temperature reported at t0.
ExampleEventsAllColumns ==
    ExampleEvents \o
    <<Event("chargePowerInKW", Num(0), RawTime(0, 0)),
      Event("temperatureOutsideVehicle", Num(1000), RawTime(0, 0))>>

\* The charge example of the specification: power 0.6, 0.8, 0 and soc 50,
\* 55, 55 at 10-minute steps, with a mileage and a temperature (in Kelvin)
\* at the start.
ExampleChargeEvents ==
    <<Event("mileage", Num(10000), RawTime(0, 0)),
      Event("temperatureOutsideVehicle", Num(28315), RawTime(0, 0)),
      Event("chargePowerInKW", Num(60), RawTime(0, 0)),
      Event("currentSOCInPct", Num(5000), RawTime(0, 0)),
      Event("chargePowerInKW", Num(80), RawTime(10, 0)),
      Event("currentSOCInPct", Num(5500), RawTime(10, 0)),
      Event("chargePowerInKW", Num(0), RawTime(20, 0))>>

Inputs ==
    GeneratedInputs \cup {ExampleEvents, ExampleEventsAllColumns, ExampleChargeEvents}

NoFiles ==
    [processed |-> Absent, notifications |-> Absent, trips |-> Absent,
     charges |-> Absent]

Init ==
    /\ pc = "parse"
    /\ events \in Inputs
    /\ df = <<>>
    /\ df_notes_pivot = EmptyTable
    /\ df_pivot = EmptyTable
    /\ df_filled = EmptyTable
    /\ driving_data = <<>>
    /\ charging_data = <<>>
    /\ df_trips = NoneFrame
    /\ df_charges = NoneFrame
    /\ files = NoFiles
    /\ log = {}

Next ==
    \/ ParseTimestamps
    \/ ExtractNotifications
    \/ PivotMain
    \/ ConvertNumeric
    \/ FixTemperature
    \/ SortAndFill
    \/ Analyze
    \/ SaveTrips
    \/ SaveCharges
    \/ SaveProcessed

Spec == Init /\ [][Next]_vars

----------------------------------------------------------------------------
(* calculate_consumption_and_charges on every small state table *)

GapChoices == {10, 20, 40}

MileageSteps == {0, 500}

MileageStepsWithReset == {-500, 0, 500}

SocChoices == {Num(5000), Num(6000)}

PowerChoices == {Num(50), Num(60)}

\* Odometer steps and charge levels that the rounding of the outputs changes.
FractionalSteps == {0, 526}

FractionalSocChoices == {Num(5000), Num(6030), Num(6500)}

\* The strictly increasing indexes of n rows.
Indexes(n) ==
    {[i \in 1..n |-> SumSeq([j \in 1..(i - 1) |-> g[j]])] : g \in [1..(n - 1) -> GapChoices]}

\* A forward-filled column is missing in its first k rows and nowhere else.
LeadingNull(k, vals) ==
    [i \in 1..(k + Len(vals)) |-> IF i <= k THEN Null ELSE vals[i - k]]

MileageColumns(n, steps) ==
    {LeadingNull(k, [i \in 1..(n - k) |->
                        Num(10000 + SumSeq([j \in 1..(i - 1) |-> st[j]]))]) :
        k \in 0..n, st \in [1..(n - 1) -> steps]}

\* The index of n rows sampled every 10 minutes.
RegularIndex(n) == [i \in 1..n |-> 10 * (i - 1)]

SocColumns(n) ==
    UNION {{LeadingNull(k, vals) : vals \in [1..(n - k) -> SocChoices]} : k \in 0..n}

PowerColumns(n) == [1..n -> PowerChoices]

Constant(n, v) == [i \in 1..n |-> v]

StateTable(idx, mileage, soc, power) ==
    [index |-> idx,
     cols |-> [currentSOCInPct |-> soc, mileage |-> mileage,
               chargePowerInKW |-> power,
               temperatureOutsideVehicle |-> Constant(Len(idx), Num(2000))]]

\* The tables of n rows: the odometer and the charge level vary with no
\* charging; the power and the charge level vary with the car parked; the
\* odometer varies, also downwards, at a constant charge level, with the
\* charger off or on throughout; the odometer and the charge level vary by
\* fractions at regular samples, with the charger off or on throughout.
IsStateTable(tb) ==
    \E n \in 1..MaxRows : \E idx \in Indexes(n) :
        \/ \E m \in MileageColumns(n, MileageSteps), s \in SocColumns(n) :
              tb = StateTable(idx, m, s, Constant(n, Num(0)))
        \/ \E s \in SocColumns(n), p \in PowerColumns(n) :
              tb = StateTable(idx, Constant(n, Num(10000)), s, p)
        \/ \E m \in MileageColumns(n, MileageStepsWithReset), p \in PowerChoices :
              tb = StateTable(idx, m, Constant(n, Num(5000)), Constant(n, p))
        \/ /\ idx = RegularIndex(n)
           /\ \E m \in MileageColumns(n, FractionalSteps), p \in PowerChoices :
                 \E s \in [1..n -> FractionalSocChoices] :
                    tb = StateTable(idx, m, s, Constant(n, p))

InitSeg ==
    /\ pc = "analyze"
    /\ events = <<>>
    /\ df = <<>>
    /\ df_notes_pivot = EmptyTable
    /\ df_pivot = EmptyTable
    /\ IsStateTable(df_filled)
    /\ driving_data = <<>>
    /\ charging_data = <<>>
    /\ df_trips = NoneFrame
    /\ df_charges = NoneFrame
    /\ files = NoFiles
    /\ log = {}

NextSeg == Analyze

SpecSeg == InitSeg /\ [][NextSeg]_vars

----------------------------------------------------------------------------
(* Claims on the segmentation *)

Analyzed == pc = "save_trips" /\ ~df_trips.none

TimeOf(d) == df_filled.index[d.row]

\* The timestamps of the rows of df_filled that a regime selects, in order.
DrivingTimes ==
    LET rows == SortedSeq({i \in DOMAIN df_filled.index : is_driving(df_filled, i)})
    IN  [j \in DOMAIN rows |-> df_filled.index[rows[j]]]

ChargingTimes ==
    LET rows == SortedSeq({i \in DOMAIN df_filled.index : is_charging(df_filled, i)})
    IN  [j \in DOMAIN rows |-> df_filled.index[rows[j]]]

\* Consecutive samples of a filtered frame that fall in the same session
\* are at most `limit` minutes apart.
GapInside(data, limit) ==
    \A j \in 1..(Len(data) - 1) :
        data[j].id = data[j + 1].id => TimeOf(data[j + 1]) - TimeOf(data[j]) <= limit

\* Consecutive samples of a filtered frame that fall in different sessions
\* are more than `limit` minutes apart.
GapAcross(data, limit) ==
    \A j \in 1..(Len(data) - 1) :
        data[j].id # data[j + 1].id => TimeOf(data[j + 1]) - TimeOf(data[j]) > limit

\* C1: two consecutive members of one trip are at most 30 minutes apart and
\* two consecutive members of one charge session at most 15 minutes apart,
\* also when rows outside the regime lie between them.
C1_GapInsideSession ==
    Analyzed =>
        /\ GapInside(driving_data, TRIP_GAP_MIN)
        /\ GapInside(charging_data, CHARGE_GAP_MIN)

Members(times, session) ==
    SelectSeq(times, LAMBDA t : session.StartTime <= t /\ t <= session.EndTime)

RECURSIVE Concat(_)
Concat(qs) == IF qs = <<>> THEN <<>> ELSE Head(qs) \o Concat(Tail(qs))

\* The sessions of one pass partition the filtered sequence `times`.
Partition(sessions, times) ==
    /\ \A g \in DOMAIN sessions : sessions[g].StartTime <= sessions[g].EndTime
    /\ \A g \in 1..(Len(sessions) - 1) :
          /\ sessions[g].StartTime < sessions[g + 1].StartTime
          /\ sessions[g].EndTime < sessions[g + 1].StartTime
    /\ \A g \in DOMAIN sessions :
          /\ Members(times, sessions[g]) # <<>>
          /\ sessions[g].StartTime \in Range(times)
          /\ sessions[g].EndTime \in Range(times)
    /\ \A j \in DOMAIN times :
          Cardinality({g \in DOMAIN sessions :
                         /\ sessions[g].StartTime <= times[j]
                         /\ times[j] <= sessions[g].EndTime}) = 1
    /\ Concat([g \in DOMAIN sessions |-> Members(times, sessions[g])]) = times

\* C3: in each pass the sessions are listed in increasing Start Time, their
\* intervals are pairwise disjoint, every filtered sample lies in exactly
\* one of them, and their members in output order are the filtered sequence.
C3_SessionPartition ==
    Analyzed =>
        /\ Partition(df_trips.rows, DrivingTimes)
        /\ Partition(df_charges.rows, ChargingTimes)

\* Several trips and several charge sessions, one of them with two members.
C3_Witness ==
    /\ Analyzed
    /\ Len(df_trips.rows) >= 2
    /\ Len(df_charges.rows) >= 2
    /\ \E g \in DOMAIN df_trips.rows :
          df_trips.rows[g].StartTime < df_trips.rows[g].EndTime

\* C9: every trip has Distance >= 0 and Energy Used >= 0 and every charge
\* session Energy Added >= 0.
C9_NonNegative ==
    Analyzed =>
        /\ \A g \in DOMAIN df_trips.rows :
              df_trips.rows[g].Distance >= 0 /\ df_trips.rows[g].EnergyUsed >= 0
        /\ \A g \in DOMAIN df_charges.rows : df_charges.rows[g].EnergyAdded >= 0

\* A trip during which the charge level rises.
C9_Witness ==
    /\ Analyzed
    /\ \E g \in DOMAIN df_trips.rows :
          /\ ~isna(df_trips.rows[g].StartSOC)
          /\ ~isna(df_trips.rows[g].EndSOC)
          /\ df_trips.rows[g].StartSOC.n < df_trips.rows[g].EndSOC.n

----------------------------------------------------------------------------
(* Claims on load_and_process_data *)

AfterAnalysis == pc \in {"save_trips", "save_charges", "save", "done"}

\* The samples of df_filled that belong to a trip.
TripMemberTimes == {TimeOf(driving_data[j]) : j \in DOMAIN driving_data}

OneTripOfTheExample ==
    /\ ~df_trips.none
    /\ Len(df_trips.rows) = 1
    /\ df_trips.rows[1].EndTime = 5
    /\ df_trips.rows[1].Distance = 50
    /\ 40 \notin TripMemberTimes

\* C4: the run on the five example events produces exactly one trip, which
\* ends at t0 + 5 min and has distance 5, and the sample at t0 + 40 min
\* belongs to no trip.
C4_ExampleAsStated ==
    (pc = "done" /\ events = ExampleEvents) => OneTripOfTheExample

\* C4, amended: the five events alone give no chargePowerInKW and no
\* temperatureOutsideVehicle column, so the run produces no trip table at
\* all; with both reported at t0 it produces the one trip of the claim.
C4_Example ==
    /\ (pc = "done" /\ events = ExampleEvents) =>
          /\ df_trips.none /\ df_charges.none
          /\ ~files.trips.exists /\ ~files.charges.exists
          /\ "Warning: Missing column" \in log
    /\ (pc = "done" /\ events = ExampleEventsAllColumns) => OneTripOfTheExample

C4_Witness ==
    /\ pc = "done"
    /\ events = ExampleEventsAllColumns
    /\ Len(df_trips.rows) = 1
    /\ files.processed.exists

DerivedColumns == {"delta_mileage", "delta_soc", "time_diff_min"}

\* C5: when the filled table lacks a required column the analysis returns
\* no trip and no charge session, adds no derived column, nothing is
\* written to the trip and charge paths, and the filled table is still
\* written (unless the path is held open, which is reported).
C5_DegradedResult ==
    (AfterAnalysis /\ ~HasRequired(df_filled)) =>
        /\ df_trips.none /\ df_charges.none
        /\ driving_data = <<>> /\ charging_data = <<>>
        /\ Columns(df_filled) \cap DerivedColumns = {}
        /\ df_filled = ffill(df_pivot)
        /\ ~files.trips.exists /\ ~files.charges.exists
        /\ pc = "done" =>
              \/ files.processed = Written(df_filled)
              \/ "PermissionError processed" \in log

\* A finished run on a table with rows, some but not all required columns.
C5_Witness ==
    /\ pc = "done"
    /\ "mileage" \in Columns(df_filled)
    /\ ~HasRequired(df_filled)
    /\ NRows(df_filled) >= 2
    /\ files.processed = Written(df_filled)

Filled == pc \in {"analyze", "save_trips", "save_charges", "save", "done"}

\* The cell of a table at (timestamp, column), missing when the table has
\* no such row or column.
Cell(tb, t, c) ==
    IF c \in Columns(tb) /\ t \in Range(tb.index)
    THEN tb.cols[c][CHOOSE i \in DOMAIN tb.index : tb.index[i] = t]
    ELSE Null

\* C6: in the filled table every cell of a tracked column at or after the
\* timestamp of the first event received for the field is defined.
C6_FillTotalityAsStated ==
    Filled =>
        \A c \in interesting_fields : \A i \in DOMAIN df_filled.index :
            (\E j \in DOMAIN df : /\ df[j].dataFieldName = c
                                  /\ df[j].timestampUtc <= df_filled.index[i])
            => /\ c \in Columns(df_filled)
               /\ ~isna(df_filled.cols[c][i])

\* An event value the state table can hold: not null, and for a numeric
\* field a number or a string of digits.
Usable(c, v) ==
    /\ v.k # "null"
    /\ c \in numeric_cols =>
          \/ v.k = "num"
          \/ v.k = "str" /\ v.s # <<>> /\ \A i \in DOMAIN v.s : v.s[i] \in Digits

\* The event that decides the cell (t, c): the last one of that timestamp
\* and field whose value is not null.
Deciding(c, j) ==
    /\ df[j].dataFieldName = c
    /\ ~isna(df[j].value)
    /\ \A m \in DOMAIN df :
          (m > j /\ df[m].dataFieldName = c /\ df[m].timestampUtc = df[j].timestampUtc)
          => isna(df[m].value)

\* C6, amended: every cell of a tracked column at or after a timestamp
\* whose deciding event carries a usable value is defined.
C6_FillTotality ==
    Filled =>
        \A c \in interesting_fields : \A i \in DOMAIN df_filled.index :
            (\E j \in DOMAIN df : /\ Deciding(c, j)
                                  /\ Usable(c, df[j].value)
                                  /\ df[j].timestampUtc <= df_filled.index[i])
            => /\ c \in Columns(df_filled)
               /\ ~isna(df_filled.cols[c][i])

\* A cell that only the fill defines: the field has no event at that row.
C6_Witness ==
    /\ Filled
    /\ \E c \in Columns(df_filled) \cap interesting_fields :
       \E i \in DOMAIN df_filled.index :
          /\ ~isna(df_filled.cols[c][i])
          /\ \A j \in DOMAIN df :
                df[j].dataFieldName = c => df[j].timestampUtc # df_filled.index[i]

\* The distinct parsed timestamps of the events of the interesting fields.
FilteredTimestamps ==
    {df[j].timestampUtc : j \in {m \in DOMAIN df : df[m].dataFieldName \in interesting_fields}}

\* C7: the state table has one row per distinct parsed timestamp of the
\* filtered events, and its timestamps are strictly increasing.
C7_RowCount ==
    Filled =>
        /\ NRows(df_filled) = Cardinality(FilteredTimestamps)
        /\ \A i \in 1..(NRows(df_filled) - 1) :
              df_filled.index[i] < df_filled.index[i + 1]

\* The values of the events of (t, f), in arrival order.
ValuesAt(t, f) == GroupValues(df, t, f)

Repeated(fields) ==
    {<<df[j].timestampUtc, df[j].dataFieldName>> :
        j \in {m \in DOMAIN df :
                 /\ df[m].dataFieldName \in fields
                 /\ Len(ValuesAt(df[m].timestampUtc, df[m].dataFieldName)) >= 2}}

NotesExtracted == pc \notin {"parse", "notifications"}

\* C8: for every (timestamp, field) with two or more events the value kept
\* is that of the last event in arrival order, in the state table (as
\* pivoted, before the numeric conversion) and in the notification table.
C8_LastWriteWinsAsStated ==
    /\ NotesExtracted =>
          \A key \in Repeated(notification_fields) :
             Cell(df_notes_pivot, key[1], key[2])
               = ValuesAt(key[1], key[2])[Len(ValuesAt(key[1], key[2]))]
    /\ pc = "numeric" =>
          \A key \in Repeated(interesting_fields) :
             Cell(df_pivot, key[1], key[2])
               = ValuesAt(key[1], key[2])[Len(ValuesAt(key[1], key[2]))]

\* v is the first (dir = 1) or last (dir = -1) value of vals that is not
\* null, or null when every value is.
FirstOrLastNonNull(vals, v, dir) ==
    IF \A i \in DOMAIN vals : isna(vals[i]) THEN isna(v)
    ELSE \E i \in DOMAIN vals :
            /\ vals[i] = v
            /\ ~isna(v)
            /\ \A m \in DOMAIN vals : (m - i) * dir < 0 => isna(vals[m])

\* C8, amended: the state table keeps the value of the last event of the
\* pair whose value is not null, the notification table the value of the
\* first such event; a pair whose events are all null has no value.
C8_KeptValue ==
    /\ pc = "numeric" =>
          \A key \in Repeated(interesting_fields) :
             FirstOrLastNonNull(ValuesAt(key[1], key[2]),
                                Cell(df_pivot, key[1], key[2]), -1)
    /\ NotesExtracted =>
          \A key \in Repeated(notification_fields) :
             FirstOrLastNonNull(ValuesAt(key[1], key[2]),
                                Cell(df_notes_pivot, key[1], key[2]), 1)

\* Two events of one pair with different values, the later one null, in
\* the state table.
C8_Witness ==
    /\ pc = "numeric"
    /\ \E key \in Repeated(interesting_fields) :
          /\ ~isna(ValuesAt(key[1], key[2])[1])
          /\ isna(ValuesAt(key[1], key[2])[2])
          /\ ~isna(Cell(df_pivot, key[1], key[2]))

----------------------------------------------------------------------------
(* The Kelvin fix on every small temperature column *)

TemperatureChoices == {Null, Num(2000), Num(29315), Num(50000)}

InitKelvin ==
    /\ pc = "kelvin"
    /\ events = <<>>
    /\ df = <<>>
    /\ df_notes_pivot = EmptyTable
    /\ \E n \in 1..MaxRows : \E col \in [1..n -> TemperatureChoices] :
          df_pivot = [index |-> [i \in 1..n |-> 10 * i],
                      cols |-> [temperatureOutsideVehicle |-> col]]
    /\ df_filled = EmptyTable
    /\ driving_data = <<>>
    /\ charging_data = <<>>
    /\ df_trips = NoneFrame
    /\ df_charges = NoneFrame
    /\ files = NoFiles
    /\ log = {}

NextKelvin == FixTemperature

SpecKelvin == InitKelvin /\ [][NextKelvin]_vars

Converted == "Converting Temperature from Kelvin to Celsius" \in log

\* Applying the correction step once more changes nothing.
SecondFixIsNoOp(tb) == ~KelvinFires(tb) /\ FixTemperatureOf(tb) = tb

\* C10: whenever the Kelvin correction has fired, the mean of the corrected
\* column is at most 200 and a second application changes no value.
C10_IdempotentAsStated ==
    (pc = "fill" /\ Converted) => SecondFixIsNoOp(df_pivot)

\* Series.mean() < limit
MeanBelow(col, limit) ==
    /\ Defined(col) # <<>>
    /\ ColSum(col) < limit * Len(Defined(col))

\* C10, amended: when the correction fires on a column whose mean is below
\* 473.15 (200 + 273.15), the mean of the corrected column is at most 200
\* and a second application changes no value.
C10_IdempotentBelow473 ==
    [][(/\ pc = "kelvin"
        /\ KelvinFires(df_pivot)
        /\ MeanBelow(df_pivot.cols["temperatureOutsideVehicle"],
                     KELVIN_THRESHOLD + KELVIN_OFFSET))
       => SecondFixIsNoOp(df_pivot')]_vars

\* The correction has fired on a column with a missing cell and has left a
\* mean of at most 200.
C10_Witness ==
    /\ pc = "fill"
    /\ Converted
    /\ \E i \in DOMAIN df_pivot.index :
          isna(df_pivot.cols["temperatureOutsideVehicle"][i])
    /\ \E i \in DOMAIN df_pivot.index :
          ~isna(df_pivot.cols["temperatureOutsideVehicle"][i])
    /\ SecondFixIsNoOp(df_pivot)

----------------------------------------------------------------------------
(* Successive runs on the same four output paths *)

\* A run whose only events are a notification text and its priority.
NotificationEvents ==
    <<Event("text", Str(<<"x">>), RawTime(0, 0)),
      Event("priority", Str(<<"5">>), RawTime(0, 0))>>

\* The inputs of the successive runs: one that yields a trip, one that
\* yields a charging session, one that yields notification events only, and
\* one whose state table lacks a required column.
RerunInputs ==
    {ExampleEventsAllColumns, ExampleChargeEvents, NotificationEvents,
     ExampleEvents}

InitRerun ==
    /\ pc = "parse"
    /\ events \in RerunInputs
    /\ df = <<>>
    /\ df_notes_pivot = EmptyTable
    /\ df_pivot = EmptyTable
    /\ df_filled = EmptyTable
    /\ driving_data = <<>>
    /\ charging_data = <<>>
    /\ df_trips = NoneFrame
    /\ df_charges = NoneFrame
    /\ files = NoFiles
    /\ log = {}

\* The script is started again on a new input file: every local of the
\* previous run is gone, the files at the four paths and the terminal remain.
Rerun ==
    /\ pc = "done"
    /\ pc' = "parse"
    /\ events' \in RerunInputs
    /\ df' = <<>>
    /\ df_notes_pivot' = EmptyTable
    /\ df_pivot' = EmptyTable
    /\ df_filled' = EmptyTable
    /\ driving_data' = <<>>
    /\ charging_data' = <<>>
    /\ df_trips' = NoneFrame
    /\ df_charges' = NoneFrame
    /\ UNCHANGED <<files, log>>

NextRerun ==
    \/ Next
    \/ Rerun

SpecRerun == InitRerun /\ [][NextRerun]_vars

OutputPaths == {"processed", "notifications", "trips", "charges"}

AllWritesSucceeded == \A path \in OutputPaths : ("PermissionError " \o path) \notin log

\* The file at a path is the table of this run, and is absent when this run
\* has no such table.
HoldsOnly(path, present, content) ==
    IF present
    THEN files[path].exists /\ files[path].content = content
    ELSE ~files[path].exists

\* C11: after any sequence of runs on the same four paths with every write
\* succeeding, the trip table, the charge table and the notification table
\* at those paths are the ones derived from the input of the last run alone;
\* when the last run yields no such table, no table of an earlier run remains.
C11_FullRecompute ==
    (pc = "done" /\ AllWritesSucceeded) =>
        /\ HoldsOnly("trips", ~df_trips.none /\ df_trips.rows # <<>>, df_trips.rows)
        /\ HoldsOnly("charges", ~df_charges.none /\ df_charges.rows # <<>>,
                     df_charges.rows)
        /\ HoldsOnly("notifications", FilterFields(df, notification_fields) # <<>>,
                     df_notes_pivot)

----------------------------------------------------------------------------
(* Claims on the session rows *)

\* The samples of a filtered frame that fall in a session, in order.
MembersOf(data, session) ==
    SelectSeq(data, LAMBDA d : /\ session.StartTime <= TimeOf(d)
                               /\ TimeOf(d) <= session.EndTime)

\* (from - to) / 100 x 77 when from > to and 0 otherwise, in 1/10000 kWh.
EnergyBetween(from, to) ==
    IF ~isna(from) /\ ~isna(to) /\ from.n > to.n
    THEN (from.n - to.n) * BATTERY_CAPACITY_KWH ELSE 0

\* The unrounded distance of a trip, in hundredths of a km.
UnroundedDistance(trip) ==
    LET members == MembersOf(driving_data, trip)
    IN  SumSeq([j \in DOMAIN members |->
                   df_filled.cols["delta_mileage"][members[j].row].n])

EnergyFormulasOfTrip(trip) ==
    LET start_soc == Cell(df_filled, trip.StartTime, "currentSOCInPct")
        end_soc == Cell(df_filled, trip.EndTime, "currentSOCInPct")
        energy == EnergyBetween(start_soc, end_soc)
        distance == UnroundedDistance(trip)
    IN  /\ trip.StartSOC = start_soc
        /\ trip.EndSOC = end_soc
        /\ trip.EnergyUsed = Round(energy, 100)
        /\ trip.Consumption = IF distance > 0 THEN Round(100 * energy, distance) ELSE 0

EnergyFormulaOfCharge(charge) ==
    LET start_soc == Cell(df_filled, charge.StartTime, "currentSOCInPct")
        end_soc == Cell(df_filled, charge.EndTime, "currentSOCInPct")
    IN  /\ charge.StartSOC = start_soc
        /\ charge.EndSOC = end_soc
        /\ charge.EnergyAdded = Round(EnergyBetween(end_soc, start_soc), 100)

\* C12: for every trip, Start SOC and End SOC are the charge level at the
\* earliest and the latest sample of its group, Energy Used is
\* (Start SOC - End SOC) / 100 x 77 when Start SOC > End SOC and 0 otherwise,
\* Consumption is Energy Used / Distance x 100 when Distance > 0 and 0
\* otherwise, from the unrounded energy and distance, each rounded to two
\* decimals in the table; for every charge session Energy Added is
\* (End SOC - Start SOC) / 100 x 77 when End SOC > Start SOC and 0 otherwise.
C12_EnergyFormulas ==
    Analyzed =>
        /\ \A g \in DOMAIN df_trips.rows : EnergyFormulasOfTrip(df_trips.rows[g])
        /\ \A g \in DOMAIN df_charges.rows : EnergyFormulaOfCharge(df_charges.rows[g])

\* The charge levels at the member samples of a trip.
LevelsOf(trip) ==
    LET members == MembersOf(driving_data, trip)
    IN  {df_filled.cols["currentSOCInPct"][members[j].row].n : j \in DOMAIN members}

\* A trip that uses energy, whose Start SOC and End SOC are not the highest
\* and the lowest level of its group, and whose Consumption differs from the
\* one the rounded Energy Used and Distance would give; and a charge session
\* that adds energy.
C12_Witness ==
    /\ Analyzed
    /\ \E g \in DOMAIN df_trips.rows :
          LET trip == df_trips.rows[g]
          IN  /\ trip.EnergyUsed > 0
              /\ \/ trip.StartSOC.n < SetMax(LevelsOf(trip))
                 \/ trip.EndSOC.n > SetMin(LevelsOf(trip))
              /\ trip.Distance > 0
              /\ trip.Consumption # Round(1000 * trip.EnergyUsed, trip.Distance)
    /\ \E g \in DOMAIN df_charges.rows : df_charges.rows[g].EnergyAdded > 0

----------------------------------------------------------------------------
(* Claims on the driving filter *)

MileageAt(i) == df_filled.cols["mileage"][i]

\* The rows of df_filled that are members of a trip.
DrivingRows == {driving_data[j].row : j \in DOMAIN driving_data}

\* The row is the first one, has no mileage yet, is the one at which the
\* mileage is first observed, or has a mileage equal to or lower than the
\* previous row.
NoIncreaseAt(i) ==
    \/ i = 1
    \/ isna(MileageAt(i))
    \/ isna(MileageAt(i - 1))
    \/ MileageAt(i).n <= MileageAt(i - 1).n

PositiveIncreaseAt(i) ==
    IF NoIncreaseAt(i) THEN 0 ELSE MileageAt(i).n - MileageAt(i - 1).n

\* The sum of the positive mileage increases at the member samples of a trip.
PositiveIncreases(trip) ==
    LET members == MembersOf(driving_data, trip)
    IN  SumSeq([j \in DOMAIN members |-> PositiveIncreaseAt(members[j].row)])

\* C13: the first row, every row at which the mileage is still missing, the
\* row at which it is first observed and every row at which it is equal to
\* or lower than at the previous row are members of no trip; every trip has
\* an unrounded distance greater than 0, equal to the sum of the positive
\* mileage increases at its member samples.
C13_DrivingFilter ==
    Analyzed =>
        /\ \A i \in DOMAIN df_filled.index : NoIncreaseAt(i) => i \notin DrivingRows
        /\ \A g \in DOMAIN df_trips.rows :
              LET trip == df_trips.rows[g]
              IN  /\ UnroundedDistance(trip) > 0
                  /\ UnroundedDistance(trip) = PositiveIncreases(trip)
                  /\ trip.Distance = Round(UnroundedDistance(trip), 10)

\* A table whose mileage is missing at first, is then observed, rises and
\* falls back, with a trip of a single sample.
C13_Witness ==
    /\ Analyzed
    /\ isna(MileageAt(1))
    /\ \E i \in DOMAIN df_filled.index :
          i > 1 /\ ~isna(MileageAt(i)) /\ isna(MileageAt(i - 1))
    /\ \E i \in DOMAIN df_filled.index :
          /\ i > 1
          /\ ~isna(MileageAt(i - 1))
          /\ MileageAt(i).n < MileageAt(i - 1).n
    /\ \E g \in DOMAIN df_trips.rows :
          /\ df_trips.rows[g].StartTime = df_trips.rows[g].EndTime
          /\ df_trips.rows[g].Distance > 0

============================================================================
